---- MODULE Spec2Model ----
(***************************************************************************)
(* Battle simulator: the frame stepper stepBattleFrame of the game engine  *)
(* (findClosestEnemy, resolveOverlaps, the roster pass, siege and victory) *)
(* and the frame loop updateSimulation of App.js.                          *)
(*                                                                         *)
(* Objects.  JavaScript units are objects and soldier.target is a          *)
(* reference to such an object.  stepBattleFrame copies every unit at the  *)
(* start of a frame ({ ...soldier }), so each frame creates one new        *)
(* generation of unit objects; the copy is shallow, so a copied target     *)
(* still refers to the object of the generation it was acquired in.  The   *)
(* model keeps every generation: hist[g][i] is the object created for      *)
(* roster position i in generation g, hist[Len(hist)] is the current       *)
(* roster, and a reference is the pair <<g, i>>.                           *)
(*                                                                         *)
(* Numbers.  Positions, speeds and distances are JavaScript doubles; the   *)
(* model computes them on the integer grid, rounding every division to the *)
(* nearest integer.  Range tests compare squared distances and are exact   *)
(* for grid positions.  The heading field is not modelled.                 *)
(***************************************************************************)
EXTENDS Integers, Sequences, FiniteSets, TLC

(* ---------------------------------------------------------------- bounds *)
\* number of calls of the stepper in one run
MaxSteps == 3

(* ------------------------------------------------------------- constants *)
attackCooldownMs == 800
baseAttackCooldownMs == 900
baseAttackRange == 110
separationPadding == 4
maxIterations == 8
engagementBuffer == 10
NAV_WORLD_SCALE == 4

NULL == <<>>          \* null / undefined reference
NEVER == -1           \* null / undefined timestamp
NOBODY == "none"      \* winner === null

(* --------------------------------------------------------------- numbers *)
Abs(a) == IF a < 0 THEN -a ELSE a

Max(a, b) == IF a >= b THEN a ELSE b

Min(a, b) == IF a <= b THEN a ELSE b

\* a / b for b > 0, rounded to the nearest integer (half away from zero)
RoundDiv(a, b) ==
  IF a >= 0 THEN (2 * a + b) \div (2 * b) ELSE -((2 * (-a) + b) \div (2 * b))

RECURSIVE SqrtIter(_, _)
SqrtIter(n, r) ==
  LET r2 == (r + n \div r) \div 2
  IN IF r2 >= r THEN r ELSE SqrtIter(n, r2)

\* floor of the square root
ISqrt(n) == IF n < 2 THEN n ELSE SqrtIter(n, n)

DistSq(dx, dy) == dx * dx + dy * dy

\* Math.hypot, rounded to the grid
Hypot(dx, dy) == (ISqrt(4 * DistSq(dx, dy)) + 1) \div 2

Other(team) == IF team = "army1" THEN "army2" ELSE "army1"

(* ---------------------------------------------------------------- state *)
VARIABLES
  hist,        \* every generation of unit objects; hist[Len(hist)] is the roster
  bases,       \* the two strongholds: [army1 |-> [x, y, hp], army2 |-> ...]
  winner,      \* decided winner, NOBODY while undecided
  clock,       \* the next value Date.now() returns
  calls,       \* number of frames stepped so far
  width,       \* battlefieldWidth
  height,      \* battlefieldHeight
  messages,    \* messages returned by the last frame
  statsDelta,  \* statsDelta returned by the last frame
  log,         \* what the last frame did, in roster-pass order: per turn the
               \* unit, its target reference, the target position it read,
               \* its move-or-attack mode, its position after the turn and,
               \* for a move, the path query's outcome and the movement
               \* vector before separation
  prevIn,      \* the last frame's arguments: heap (with the roster), strongholds, winner, clock
  lastHit,     \* per unit: clock values of its last two damaging melee attacks
  battleStarted,  \* the App's battleStarted flag
  pendingWaves    \* the spawn-wave timeouts that are scheduled and have not
                  \* fired: per timeout the closure's team, spawn point and
                  \* spawned count, and the time it is due

vars == <<hist, bases, winner, clock, calls, width, height, messages,
          statsDelta, log, prevIn, lastHit, battleStarted, pendingWaves>>

\* the current roster (the soldiers array the next frame receives)
soldiers == hist[Len(hist)]

\* the object a reference points to, in heap h
Deref(h, ref) == h[ref[1]][ref[2]]

zeroStats ==
  [army1 |-> [killsDelta |-> 0, aliveDelta |-> 0],
   army2 |-> [killsDelta |-> 0, aliveDelta |-> 0]]

(* ----------------------------------------------------- target acquisition *)
RECURSIVE ClosestFrom(_, _, _, _, _)
\* the loop of findClosestEnemy from position i on: refs are the references of
\* the units array, best the closest so far (NULL with minDistance = Infinity)
ClosestFrom(h, subject, refs, i, best) ==
  IF i > Len(refs) THEN best
  ELSE LET enemy == Deref(h, refs[i])
           d == DistSq(enemy.x - subject.x, enemy.y - subject.y)
           closer == \/ best = NULL
                     \/ d < DistSq(Deref(h, best).x - subject.x,
                                   Deref(h, best).y - subject.y)
       IN ClosestFrom(h, subject, refs, i + 1, IF closer THEN refs[i] ELSE best)

\* as findClosestEnemy, but the last of several enemies at the minimum
\* distance wins (d <= minDistance)
findClosestEnemy_LastOnTies(h, subject, refs) ==
  LET Pick(best, r) ==
        IF best = NULL THEN r
        ELSE IF DistSq(Deref(h, r).x - subject.x, Deref(h, r).y - subject.y)
                <= DistSq(Deref(h, best).x - subject.x, Deref(h, best).y - subject.y)
        THEN r ELSE best
      Scan[i \in 0..Len(refs)] == IF i = 0 THEN NULL ELSE Pick(Scan[i - 1], refs[i])
  IN Scan[Len(refs)]

findClosestEnemy(h, subject, refs) == ClosestFrom(h, subject, refs, 1, NULL)

\* the references of generation g in roster order
RosterRefs(h, g) == [i \in 1..Len(h[g]) |-> <<g, i>>]

\* nextSoldiers.filter((s) => s.team !== soldier.team && s.alive)
Enemies(h, g, soldier) ==
  LET Keep(r) == Deref(h, r).team # soldier.team /\ Deref(h, r).alive
  IN SelectSeq(RosterRefs(h, g), Keep)

\* nextSoldiers.filter((s) => s.id !== soldier.id && s.alive)
Neighbors(h, g, soldier) ==
  LET Keep(r) == Deref(h, r).id # soldier.id /\ Deref(h, r).alive
  IN SelectSeq(RosterRefs(h, g), Keep)

(* ----------------------------------------------------- overlap resolution *)
\* One pair (a, b) = (us[i], us[j]) of the inner loop: both pushed apart by
\* half the penetration depth along the connecting axis.  For a coincident
\* pair the axis components are the two draws Math.random() - 0.5, modelled by
\* rnd.x / 2 and rnd.y / 2, and the depth is (minDist - 0.001) / 2.
PushPair(us, i, j, padding, rnd) ==
  LET a == us[i]
      b == us[j]
      dx == b.x - a.x
      dy == b.y - a.y
      dist == Hypot(dx, dy)
      minDist == a.radius + b.radius + padding
      zero == dx = 0 /\ dy = 0
      px == IF zero THEN RoundDiv(rnd.x * minDist, 4)
            ELSE RoundDiv(dx * (minDist - dist), 2 * dist)
      py == IF zero THEN RoundDiv(rnd.y * minDist, 4)
            ELSE RoundDiv(dy * (minDist - dist), 2 * dist)
  IN IF zero \/ DistSq(dx, dy) < minDist * minDist
     THEN [us |-> [us EXCEPT ![i].x = @ - px, ![i].y = @ - py,
                              ![j].x = @ + px, ![j].y = @ + py],
           moved |-> TRUE]
     ELSE [us |-> us, moved |-> FALSE]

RECURSIVE OverlapInner(_, _, _, _, _, _)
\* for (let j = ...; j < units.length; j++) for a fixed living a = us[i]
OverlapInner(us, i, j, padding, rnd, moved) ==
  IF j > Len(us) THEN [us |-> us, moved |-> moved]
  ELSE IF ~us[j].alive THEN OverlapInner(us, i, j + 1, padding, rnd, moved)
  ELSE LET r == PushPair(us, i, j, padding, rnd)
       IN OverlapInner(r.us, i, j + 1, padding, rnd, moved \/ r.moved)

\* Math.max(a.radius, Math.min(width - a.radius, a.x)), and the same for y
ClampUnit(a, w, ht) ==
  [a EXCEPT !.x = Max(a.radius, Min(w - a.radius, a.x)),
            !.y = Max(a.radius, Min(ht - a.radius, a.y))]

RECURSIVE OverlapOuter(_, _, _, _, _, _, _)
\* for (let i = 0; i < units.length; i++): dead units are skipped unclamped
OverlapOuter(us, i, w, ht, padding, rnd, moved) ==
  IF i > Len(us) THEN [us |-> us, moved |-> moved]
  ELSE IF ~us[i].alive THEN OverlapOuter(us, i + 1, w, ht, padding, rnd, moved)
  ELSE LET r == OverlapInner(us, i, i + 1, padding, rnd, moved)
           clamped == [r.us EXCEPT ![i] = ClampUnit(r.us[i], w, ht)]
       IN OverlapOuter(clamped, i + 1, w, ht, padding, rnd, r.moved)

\* as OverlapIter, but a single pass whatever it pushed
OverlapIter_OnePass(us, iter, w, ht, padding, rnd) ==
  OverlapOuter(us, 1, w, ht, padding, rnd, FALSE).us

RECURSIVE OverlapIter(_, _, _, _, _, _)
\* for (let iter = 0; iter < maxIterations; iter++) ... if (!anyMoved) break
OverlapIter(us, iter, w, ht, padding, rnd) ==
  IF iter >= maxIterations THEN us
  ELSE LET r == OverlapOuter(us, 1, w, ht, padding, rnd, FALSE)
       IN IF ~r.moved THEN r.us
          ELSE OverlapIter(r.us, iter + 1, w, ht, padding, rnd)

resolveOverlaps(us, w, ht, rnd) == OverlapIter(us, 0, w, ht, separationPadding, rnd)

(* ------------------------------------------------------------ the roster pass *)
\* !soldier.lastAttack: null, undefined and 0 are all falsy
Falsy(t) == t = NEVER \/ t = 0

\* markDeath that counts a death as an arrival
markDeath_Increments(stats, unit) ==
  [stats EXCEPT ![unit.team].aliveDelta = @ + 1]

\* statsDelta with one more death on the unit's team (markDeath)
markDeath(stats, unit) ==
  [stats EXCEPT ![unit.team].aliveDelta = @ - 1]

\* as Retreat, but the unit retreats at its full speed
Retreat_FullSpeed(st, g, idx, w) ==
  LET soldier == st.h[g][idx]
      retreatX == IF soldier.team = "army1" THEN -1 ELSE 1
      nx == soldier.x + retreatX * soldier.speed
      gone == nx < 0 \/ nx > w
      moved == [soldier EXCEPT !.target = NULL, !.x = nx,
                               !.alive = IF gone THEN FALSE ELSE @]
  IN [st EXCEPT
        !.h = [@ EXCEPT ![g][idx] = moved],
        !.messages = IF gone
                     THEN Append(@, [kind |-> "left", unit |-> soldier.id, by |-> 0])
                     ELSE @,
        !.stats = IF gone THEN markDeath(@, soldier) ELSE @,
        !.log = Append(@, [kind |-> "retreat", by |-> idx, ref |-> NULL,
                           acquired |-> FALSE, rosterAlive |-> FALSE,
                           dealt |-> FALSE, lethal |-> FALSE, sieged |-> FALSE,
                           mode |-> "none", seen |-> NULL,
                           nav |-> NULL, steer |-> [x |-> 0, y |-> 0],
                           at |-> [x |-> nx, y |-> soldier.y]])]

\* The retreat branch of a living unit whose state is 'retreating'.
\* st is the state of the pass: heap h, strongholds, messages, stats, log.
Retreat(st, g, idx, w) ==
  LET soldier == st.h[g][idx]
      retreatSpeed == soldier.speed \div 2      \* speed * 0.5; speeds are even
      retreatX == IF soldier.team = "army1" THEN -1 ELSE 1
      nx == soldier.x + retreatX * retreatSpeed
      gone == nx < 0 \/ nx > w
      moved == [soldier EXCEPT !.target = NULL, !.x = nx,
                               !.alive = IF gone THEN FALSE ELSE @]
  IN [st EXCEPT
        !.h = [@ EXCEPT ![g][idx] = moved],
        !.messages = IF gone
                     THEN Append(@, [kind |-> "left", unit |-> soldier.id, by |-> 0])
                     ELSE @,
        !.stats = IF gone THEN markDeath(@, soldier) ELSE @,
        !.log = Append(@, [kind |-> "retreat", by |-> idx, ref |-> NULL,
                           acquired |-> FALSE, rosterAlive |-> FALSE,
                           dealt |-> FALSE, lethal |-> FALSE, sieged |-> FALSE,
                           mode |-> "none", seen |-> NULL,
                           nav |-> NULL, steer |-> [x |-> 0, y |-> 0],
                           at |-> [x |-> nx, y |-> soldier.y]])]

\* Steering that stands still when no usable path comes back
Steering_StopsOnFailure(soldier, tgt, nav, w, ht) ==
  LET dx == tgt.x - soldier.x
      dy == tgt.y - soldier.y
      distance == Hypot(dx, dy)
      dd == IF distance = 0 THEN 1 ELSE distance
      ok == nav.first.success /\ nav.first.points > 1
      result == IF ~ok THEN nav.door ELSE nav.first
      nextDx == (RoundDiv(result.next.x, NAV_WORLD_SCALE) + w \div 2) - soldier.x
      nextDy == (RoundDiv(result.next.z, NAV_WORLD_SCALE) + ht \div 2) - soldier.y
      nextDist == IF Hypot(nextDx, nextDy) = 0 THEN 1 ELSE Hypot(nextDx, nextDy)
  IN IF nav.available /\ ~nav.throws /\ result.success /\ result.points > 1
     THEN [x |-> RoundDiv(nextDx * soldier.speed, nextDist),
           y |-> RoundDiv(nextDy * soldier.speed, nextDist)]
     ELSE IF nav.available
          THEN [x |-> 0, y |-> 0]
          ELSE [x |-> RoundDiv(dx * soldier.speed, dd),
                y |-> RoundDiv(dy * soldier.speed, dd)]

\* result && result.success && result.path && result.path.length > 1, for the
\* result of a path query: success flag, number of path points, second point
Usable(result) == result.success /\ result.points > 1

\* The movement vector toward the target: the straight line scaled by speed,
\* replaced by the direction of the path's second point when the path query
\* yields a usable path.  nav is what the frame's queries do: whether
\* navMeshQuery is there, whether computePath throws, the result of the query
\* to the enemy stronghold and the result of the fallback query to the doorway.
Steering(soldier, tgt, nav, w, ht) ==
  LET dx == tgt.x - soldier.x
      dy == tgt.y - soldier.y
      distance == Hypot(dx, dy)
      dd == IF distance = 0 THEN 1 ELSE distance
      result == IF ~Usable(nav.first) THEN nav.door ELSE nav.first
      nextDx == (RoundDiv(result.next.x, NAV_WORLD_SCALE) + w \div 2) - soldier.x
      nextDy == (RoundDiv(result.next.z, NAV_WORLD_SCALE) + ht \div 2) - soldier.y
      nextDist == IF Hypot(nextDx, nextDy) = 0 THEN 1 ELSE Hypot(nextDx, nextDy)
  IN IF nav.available /\ ~nav.throws /\ Usable(result)
     THEN [x |-> RoundDiv(nextDx * soldier.speed, nextDist),
           y |-> RoundDiv(nextDy * soldier.speed, nextDist)]
     ELSE [x |-> RoundDiv(dx * soldier.speed, dd),
           y |-> RoundDiv(dy * soldier.speed, dd)]

RECURSIVE SeparationSum(_, _, _, _)
\* the loop over neighbors: sums of (ndx / nd) * weight in thousandths, and
\* the number of contributing neighbours
SeparationSum(h, soldier, refs, i) ==
  IF i > Len(refs) THEN [x |-> 0, y |-> 0, n |-> 0]
  ELSE LET other == Deref(h, refs[i])
           ndx == soldier.x - other.x
           ndy == soldier.y - other.y
           nd == Hypot(ndx, ndy)
           desired == soldier.radius + other.radius + 4
           rest == SeparationSum(h, soldier, refs, i + 1)
       IN IF DistSq(ndx, ndy) > 0 /\ DistSq(ndx, ndy) < desired * desired
          THEN [x |-> rest.x + RoundDiv(ndx * (desired - nd) * 1000, nd * desired),
                y |-> rest.y + RoundDiv(ndy * (desired - nd) * 1000, nd * desired),
                n |-> rest.n + 1]
          ELSE rest

\* separation steering: the averaged repulsion scaled by 0.8 * speed
Separation(h, g, soldier) ==
  LET sum == SeparationSum(h, soldier, Neighbors(h, g, soldier), 1)
  IN IF sum.n > 0
     THEN [x |-> RoundDiv(sum.x * soldier.speed * 8, sum.n * 10000),
           y |-> RoundDiv(sum.y * soldier.speed * 8, sum.n * 10000)]
     ELSE [x |-> 0, y |-> 0]

\* as Wounded, but the victim's state is left as it was
Wounded_StateKept(victim, health) ==
  [victim EXCEPT !.health = health,
                 !.alive = IF health <= 0 THEN FALSE ELSE @]

\* target.health -= soldier.damage; at health <= 0 the target object is marked
\* alive = false, state = 'dead'
Wounded(victim, health) ==
  [victim EXCEPT !.health = health,
                 !.alive = IF health <= 0 THEN FALSE ELSE @,
                 !.state = IF health <= 0 THEN "dead" ELSE @]

\* as MeleeHit, but one timer serves both channels: the hit stamps
\* lastBaseAttack as well
MeleeHit_SharedTimer(st, g, idx, tref, now) ==
  LET soldier == st.h[g][idx]
      health == Deref(st.h, tref).health - soldier.damage
      victim == Deref(st.h, tref)
      h1 == [st.h EXCEPT ![tref[1]][tref[2]] = Wounded(victim, health)]
  IN [st EXCEPT
        !.h = [h1 EXCEPT ![g][idx].lastAttack = now,
                         ![g][idx].lastBaseAttack = now],
        !.messages = IF health <= 0
                     THEN Append(@, [kind |-> "defeated", unit |-> victim.id,
                                     by |-> soldier.id])
                     ELSE @,
        !.stats = IF health <= 0
                  THEN markDeath([@ EXCEPT ![soldier.team].killsDelta = @ + 1], victim)
                  ELSE @]

\* A melee hit on the object the target reference points to: health reduced,
\* and at health <= 0 that object marked dead, the defeat message pushed and
\* the deltas updated.
MeleeHit(st, g, idx, tref, now) ==
  LET soldier == st.h[g][idx]
      health == Deref(st.h, tref).health - soldier.damage
      victim == Deref(st.h, tref)
      h1 == [st.h EXCEPT ![tref[1]][tref[2]] = Wounded(victim, health)]
  IN [st EXCEPT
        !.h = [h1 EXCEPT ![g][idx].lastAttack = now],
        !.messages = IF health <= 0
                     THEN Append(@, [kind |-> "defeated", unit |-> victim.id,
                                     by |-> soldier.id])
                     ELSE @,
        !.stats = IF health <= 0
                  THEN markDeath([@ EXCEPT ![soldier.team].killsDelta = @ + 1], victim)
                  ELSE @]

\* if (target) { ... soldier.target = target }: move when out of attack range,
\* else attack when the cooldown allows
Engage(st, g, idx, tref, acquired, now, nav, w, ht) ==
  LET soldier == st.h[g][idx]
      target == Deref(st.h, tref)
      dx == target.x - soldier.x
      dy == target.y - soldier.y
      attackRange == soldier.radius + target.radius + engagementBuffer
      steer == Steering(soldier, target, nav, w, ht)
      sep == Separation(st.h, g, soldier)
      fire == \/ Falsy(soldier.lastAttack)
              \/ now - soldier.lastAttack > attackCooldownMs
      entry == [kind |-> "engage", by |-> idx, ref |-> tref, acquired |-> acquired,
                rosterAlive |-> st.h[g][tref[2]].alive,
                dealt |-> FALSE, lethal |-> FALSE, sieged |-> FALSE,
                mode |-> "attack", seen |-> [x |-> target.x, y |-> target.y],
                nav |-> NULL, steer |-> [x |-> 0, y |-> 0],
                at |-> [x |-> soldier.x, y |-> soldier.y]]
  IN IF DistSq(dx, dy) > attackRange * attackRange
     THEN [st EXCEPT
             !.h = [@ EXCEPT ![g][idx] =
                      [soldier EXCEPT !.state = "moving",
                                      !.x = @ + steer.x + sep.x,
                                      !.y = @ + steer.y + sep.y,
                                      !.target = tref]],
             !.log = Append(@, [entry EXCEPT
                        !.mode = "move", !.nav = nav, !.steer = steer,
                        !.at = [x |-> soldier.x + steer.x + sep.x,
                                y |-> soldier.y + steer.y + sep.y]])]
     ELSE LET s1 == [st EXCEPT !.h = [@ EXCEPT ![g][idx].state = "attacking"]]
              s2 == IF fire THEN MeleeHit(s1, g, idx, tref, now) ELSE s1
          IN [s2 EXCEPT
                !.h = [@ EXCEPT ![g][idx].target = tref],
                !.log = Append(@, [entry EXCEPT
                           !.dealt = fire,
                           !.lethal = fire /\ ~Deref(s2.h, tref).alive])]

\* as SiegeDamage, without the clamp at 0
SiegeDamage_NoClamp(hp, dmg) == hp - dmg

\* Math.max(0, nextBases.<enemy>.hp - dmg)
SiegeDamage(hp, dmg) == Max(0, hp - dmg)

\* as Siege, but the damage is taken off the hp the stronghold had when the
\* frame began, so that an earlier hit of the same frame is lost
Siege_LostUpdate(st, g, idx, now) ==
  LET soldier == st.h[g][idx]
      foe == Other(soldier.team)
      enemyBase == st.bases[foe]
      baseDx == enemyBase.x - soldier.x
      baseDy == enemyBase.y - soldier.y
      fire == \/ Falsy(soldier.lastBaseAttack)
              \/ now - soldier.lastBaseAttack > baseAttackCooldownMs
  IN IF ~soldier.alive
        \/ DistSq(baseDx, baseDy) > baseAttackRange * baseAttackRange
     THEN st
     ELSE IF ~fire
     THEN [st EXCEPT !.h = [@ EXCEPT ![g][idx].state = "attacking"]]
     ELSE [st EXCEPT
             !.h = [@ EXCEPT ![g][idx].state = "attacking",
                             ![g][idx].lastBaseAttack = now],
             !.bases = [@ EXCEPT ![foe].hp = SiegeDamage(bases[foe].hp, soldier.damage)],
             !.log = [@ EXCEPT ![Len(@)].sieged = TRUE]]

\* // Base attack: within baseAttackRange the unit is 'attacking' and, when the
\* siege cooldown allows, the enemy stronghold loses the unit's damage
Siege(st, g, idx, now) ==
  LET soldier == st.h[g][idx]
      foe == Other(soldier.team)
      enemyBase == st.bases[foe]
      baseDx == enemyBase.x - soldier.x
      baseDy == enemyBase.y - soldier.y
      fire == \/ Falsy(soldier.lastBaseAttack)
              \/ now - soldier.lastBaseAttack > baseAttackCooldownMs
  IN IF ~soldier.alive
        \/ DistSq(baseDx, baseDy) > baseAttackRange * baseAttackRange
     THEN st
     ELSE IF ~fire
     THEN [st EXCEPT !.h = [@ EXCEPT ![g][idx].state = "attacking"]]
     ELSE [st EXCEPT
             !.h = [@ EXCEPT ![g][idx].state = "attacking",
                             ![g][idx].lastBaseAttack = now],
             !.bases = [@ EXCEPT ![foe].hp = SiegeDamage(@, soldier.damage)],
             !.log = [@ EXCEPT ![Len(@)].sieged = TRUE]]

\* as NeedsNewTarget, but a target is acquired anew in every frame
NeedsNewTarget_Always(h, old) == TRUE

\* !target || !target.alive || target.state === 'retreating', on the object
\* the unit's target reference points to
NeedsNewTarget(h, old) ==
  \/ old = NULL
  \/ ~Deref(h, old).alive
  \/ Deref(h, old).state = "retreating"

\* as StepSoldier, but a unit that is not alive takes its turn like any other
StepSoldier_DeadActs(st, g, idx, now, nav, w, ht) ==
  LET soldier == st.h[g][idx]
      old == soldier.target
      reacquire == NeedsNewTarget(st.h, old)
      tref == IF reacquire
              THEN findClosestEnemy(st.h, soldier, Enemies(st.h, g, soldier))
              ELSE old
      idle == [kind |-> "idle", by |-> idx, ref |-> NULL, acquired |-> FALSE,
               rosterAlive |-> FALSE, dealt |-> FALSE, lethal |-> FALSE,
               sieged |-> FALSE, mode |-> "none", seen |-> NULL,
               nav |-> NULL, steer |-> [x |-> 0, y |-> 0],
               at |-> [x |-> soldier.x, y |-> soldier.y]]
  IN IF soldier.state = "celebrating" THEN st
     ELSE IF soldier.state = "retreating" THEN Retreat(st, g, idx, w)
     ELSE Siege(IF tref # NULL
                THEN Engage(st, g, idx, tref, reacquire, now, nav, w, ht)
                ELSE [st EXCEPT !.log = Append(@, idle)],
                g, idx, now)

\* as StepSoldier, but a celebrating unit takes its turn like any other
StepSoldier_CelebratingActs(st, g, idx, now, nav, w, ht) ==
  LET soldier == st.h[g][idx]
      old == soldier.target
      reacquire == NeedsNewTarget(st.h, old)
      tref == IF reacquire
              THEN findClosestEnemy(st.h, soldier, Enemies(st.h, g, soldier))
              ELSE old
      idle == [kind |-> "idle", by |-> idx, ref |-> NULL, acquired |-> FALSE,
               rosterAlive |-> FALSE, dealt |-> FALSE, lethal |-> FALSE,
               sieged |-> FALSE, mode |-> "none", seen |-> NULL,
               nav |-> NULL, steer |-> [x |-> 0, y |-> 0],
               at |-> [x |-> soldier.x, y |-> soldier.y]]
  IN IF ~soldier.alive THEN st
     ELSE IF soldier.state = "retreating" THEN Retreat(st, g, idx, w)
     ELSE Siege(IF tref # NULL
                THEN Engage(st, g, idx, tref, reacquire, now, nav, w, ht)
                ELSE [st EXCEPT !.log = Append(@, idle)],
                g, idx, now)

\* One turn of the roster pass (the body of the for loop over nextSoldiers)
StepSoldier(st, g, idx, now, nav, w, ht) ==
  LET soldier == st.h[g][idx]
      old == soldier.target
      reacquire == NeedsNewTarget(st.h, old)
      tref == IF reacquire
              THEN findClosestEnemy(st.h, soldier, Enemies(st.h, g, soldier))
              ELSE old
      idle == [kind |-> "idle", by |-> idx, ref |-> NULL, acquired |-> FALSE,
               rosterAlive |-> FALSE, dealt |-> FALSE, lethal |-> FALSE,
               sieged |-> FALSE, mode |-> "none", seen |-> NULL,
               nav |-> NULL, steer |-> [x |-> 0, y |-> 0],
               at |-> [x |-> soldier.x, y |-> soldier.y]]
  IN IF ~soldier.alive \/ soldier.state = "celebrating" THEN st
     ELSE IF soldier.state = "retreating" THEN Retreat(st, g, idx, w)
     ELSE Siege(IF tref # NULL
                THEN Engage(st, g, idx, tref, reacquire, now, nav, w, ht)
                ELSE [st EXCEPT !.log = Append(@, idle)],
                g, idx, now)

RECURSIVE RosterPass(_, _, _, _, _, _, _)
\* for (let idx = 0; idx < nextSoldiers.length; idx++)
RosterPass(st, g, idx, now, nav, w, ht) ==
  IF idx > Len(st.h[g]) THEN st
  ELSE RosterPass(StepSoldier(st, g, idx, now, nav, w, ht), g, idx + 1,
                  now, nav, w, ht)

\* as Victory, but the team whose stronghold fell is declared
Victory_OwnTeam(bs) ==
  IF bs.army1.hp <= 0 THEN "army1"
  ELSE IF bs.army2.hp <= 0 THEN "army2"
  ELSE NOBODY

\* as Victory, but the army2 stronghold is looked at first
Victory_Army2First(bs) ==
  IF bs.army2.hp <= 0 THEN "army1"
  ELSE IF bs.army1.hp <= 0 THEN "army2"
  ELSE NOBODY

\* if (nextBases.army1.hp <= 0) ... else if (nextBases.army2.hp <= 0) ...
Victory(bs) ==
  IF bs.army1.hp <= 0 THEN "army2"
  ELSE IF bs.army2.hp <= 0 THEN "army1"
  ELSE NOBODY

\* as FrameBody, but the units that are not alive after the pass are removed
\* from the returned roster
FrameBody_DeadRemoved(h, bs, now, nav, rnd, w, ht) ==
  LET g == Len(h) + 1
      st0 == [h |-> Append(h, h[Len(h)]), bases |-> bs,
              messages |-> <<>>, stats |-> zeroStats, log |-> <<>>]
      st1 == RosterPass(st0, g, 1, now, nav, w, ht)
      Living(u) == u.alive
  IN [h |-> [st1.h EXCEPT ![g] = SelectSeq(resolveOverlaps(@, w, ht, rnd), Living)],
      bases |-> st1.bases,
      winner |-> Victory(st1.bases),
      messages |-> st1.messages,
      stats |-> st1.stats,
      log |-> st1.log]

\* The frame proper (from the copy of the roster to the return): h is the
\* heap, whose last generation is the soldiers argument.  The result carries
\* the heap after the frame (its last generation is the returned soldiers),
\* the returned strongholds, winner, messages and statsDelta, and the log of
\* the pass.
FrameBody(h, bs, now, nav, rnd, w, ht) ==
  LET g == Len(h) + 1
      nextSoldiers == h[Len(h)]            \* soldiers.map((s) => ({ ...s }))
      st0 == [h |-> Append(h, nextSoldiers), bases |-> bs,
              messages |-> <<>>, stats |-> zeroStats, log |-> <<>>]
      st1 == RosterPass(st0, g, 1, now, nav, w, ht)
  IN [h |-> [st1.h EXCEPT ![g] = resolveOverlaps(@, w, ht, rnd)],
      bases |-> st1.bases,
      winner |-> Victory(st1.bases),
      messages |-> st1.messages,
      stats |-> st1.stats,
      log |-> st1.log]

\* as stepBattleFrame, without the early return for a decided winner
stepBattleFrame_NoEarlyReturn(h, bs, win, now, nav, rnd, w, ht) ==
  [FrameBody(h, bs, now, nav, rnd, w, ht) EXCEPT
     !.winner = IF win # NOBODY THEN win ELSE @]

\* as stepBattleFrame, reading the time of the call instead of the clock
\* reading it is given
stepBattleFrame_OwnClock(h, bs, win, now, nav, rnd, w, ht) ==
  IF win # NOBODY
  THEN [h |-> h, bases |-> bs, winner |-> win, messages |-> <<>>,
        stats |-> zeroStats, log |-> <<>>]
  ELSE FrameBody(h, bs, clock, nav, rnd, w, ht)

\* stepBattleFrame: with a winner already decided the arguments are returned
\* as they are, with no messages and zero deltas
stepBattleFrame(h, bs, win, now, nav, rnd, w, ht) ==
  IF win # NOBODY
  THEN [h |-> h, bases |-> bs, winner |-> win, messages |-> <<>>,
        stats |-> zeroStats, log |-> <<>>]
  ELSE FrameBody(h, bs, now, nav, rnd, w, ht)

(* ------------------------------------------------------------ scenarios *)
\* a unit as the App creates it: radius 16, morale 100, no target, no timers
Unit(id, team, x, y, health, damage, speed, state) ==
  [id |-> id, team |-> team, x |-> x, y |-> y, health |-> health,
   damage |-> damage, speed |-> speed, radius |-> 16, morale |-> 100,
   alive |-> TRUE, state |-> state, target |-> NULL,
   lastAttack |-> NEVER, lastBaseAttack |-> NEVER]

\* clock readings: the first reading and the time between two frames
StartClocks == {0, 5000}

ClockSteps == {400, 900}

\* results of a path query: none, or a path of so many points with the given
\* second point in nav coordinates
NoPath == [success |-> FALSE, points |-> 0, next |-> [x |-> 0, z |-> 0]]

PathTo(points, x, z) ==
  [success |-> TRUE, points |-> points, next |-> [x |-> x, z |-> z]]

\* no navMeshQuery (the nav mesh was never built)
NavUnavailable ==
  [available |-> FALSE, throws |-> FALSE, first |-> NoPath, door |-> NoPath]

\* what the path queries of a frame do: no query object, or a path whose
\* second point is the middle of the battlefield
NavOutcomes ==
  { NavUnavailable,
    [available |-> TRUE, throws |-> FALSE, first |-> PathTo(2, 0, 0), door |-> NoPath] }

\* the draws Math.random() - 0.5 of a frame, in halves
RandomDraws == {[x |-> -1, y |-> 0], [x |-> 1, y |-> 1]}

\* Rosters.  Unit 1 (army1) approaches unit 2 (army2) or stands in range of
\* it; unit 3 (army2) comes from the other side, stands at the same distance
\* from unit 1 as unit 2, stands nearest to unit 1 with little health, or
\* stands just out of attack range of the retreating unit 4; unit 4 (army1)
\* is retreating at the left edge or stands in range of unit 2; in two
\* rosters it is retreating or celebrating in range of unit 2 and of the army2
\* stronghold, and in one it is retreating at the left edge at half the speed.
Rosters ==
  { << Unit(1, "army1", ax, 100, 30, 20, 10, "idle"),
       Unit(2, "army2", 200, 100, bh, 10, 10, "idle"),
       Unit(3, "army2", d[1], d[2], d[3], 10, 20, "idle"),
       Unit(4, "army1", u4[1], u4[2], 30, 10, 40, u4[3]) >> :
      ax \in {150, 158}, bh \in {20, 40},
      d \in {<<90, 100, 30>>, <<158, 142, 30>>, <<117, 100, 20>>, <<63, 30, 30>>},
      u4 \in {<<20, 30, "retreating">>, <<242, 100, "idle">>} }
  \cup
  { << Unit(1, "army1", 158, 100, 30, 20, 10, "idle"),
       Unit(2, "army2", 200, 100, 40, 10, 10, "idle"),
       Unit(3, "army2", 90, 100, 30, 10, 20, "idle"),
       Unit(4, "army1", 242, 100, 30, 10, 40, s4) >> :
      s4 \in {"retreating", "celebrating"} }
  \cup
  { << Unit(1, "army1", 150, 100, 30, 20, 10, "idle"),
       Unit(2, "army2", 200, 100, 20, 10, 10, "idle"),
       Unit(3, "army2", 117, 100, 20, 10, 20, "idle"),
       Unit(4, "army1", 20, 30, 30, 10, 20, "retreating") >> }

Init ==
  /\ \E r \in Rosters : hist = << r >>
  /\ \E hp \in {5, 100} :
       bases = [army1 |-> [x |-> 120, y |-> 100, hp |-> hp],
                army2 |-> [x |-> 280, y |-> 100, hp |-> 30]]
  /\ winner = NOBODY
  /\ clock \in StartClocks
  /\ calls = 0
  /\ width = 400
  /\ height = 200
  /\ messages = <<>>
  /\ statsDelta = zeroStats
  /\ log = <<>>
  /\ prevIn = [hist |-> hist, bases |-> bases, winner |-> NOBODY, clock |-> clock]
  /\ lastHit = [i \in 1..4 |-> <<NEVER, NEVER>>]
  /\ battleStarted = TRUE
  /\ pendingWaves = <<>>

\* One frame: the caller feeds the previous output back in
Step ==
  /\ calls < MaxSteps
  /\ \E nav \in NavOutcomes, rnd \in RandomDraws :
       LET r == stepBattleFrame(hist, bases, winner, clock, nav, rnd, width, height)
       IN /\ hist' = r.h
          /\ bases' = r.bases
          /\ winner' = r.winner
          /\ messages' = r.messages
          /\ statsDelta' = r.stats
          /\ log' = r.log
          /\ prevIn' = [hist |-> hist, bases |-> bases,
                        winner |-> winner, clock |-> clock]
          /\ lastHit' = [i \in DOMAIN lastHit |->
                           IF \E k \in 1..Len(r.log) : r.log[k].by = i /\ r.log[k].dealt
                           THEN <<lastHit[i][2], clock>>
                           ELSE lastHit[i]]
          /\ \E dt \in ClockSteps : clock' = clock + dt
  /\ calls' = calls + 1
  /\ UNCHANGED <<width, height, battleStarted, pendingWaves>>

Next == Step

Spec == Init /\ [][Next]_vars

----------------------------------------------------------------------------
\* The same engine with every way the path queries of a frame can turn out.

\* frames per run
MaxNavSteps == 2

\* no query object; a thrown query; both queries without a path; both with a
\* path of one point; a path reported without success; the fallback query to
\* the doorway answering when the first does not; the first query answering
NavQueries ==
  NavOutcomes \cup
  { [available |-> TRUE, throws |-> TRUE, first |-> PathTo(2, 0, 0), door |-> PathTo(2, 0, 0)],
    [available |-> TRUE, throws |-> FALSE, first |-> NoPath, door |-> NoPath],
    [available |-> TRUE, throws |-> FALSE, first |-> PathTo(1, 0, 0), door |-> PathTo(1, 0, 0)],
    [available |-> TRUE, throws |-> FALSE,
     first |-> [success |-> FALSE, points |-> 2, next |-> [x |-> 0, z |-> 0]],
     door |-> [success |-> FALSE, points |-> 3, next |-> [x |-> 0, z |-> 0]]],
    [available |-> TRUE, throws |-> FALSE, first |-> NoPath, door |-> PathTo(3, -400, 200)] }

\* rosters in which unit 1 and unit 3 have to walk; unit 2 stands in siege
\* range of the army1 stronghold, and unit 4, where it is not retreating, in
\* siege range of the army2 stronghold, either of which falls to one hit when
\* the strongholds start at 5 and 10 hp
NavRosters ==
  { r \in Rosters : r[1].x = 150 /\ r[2].health = 40 /\ r[3].health = 30 /\ r[3].x # 158 }

InitNav ==
  /\ \E r \in NavRosters : hist = << r >>
  /\ \E hp \in {<<100, 30>>, <<5, 10>>} :
       bases = [army1 |-> [x |-> 120, y |-> 100, hp |-> hp[1]],
                army2 |-> [x |-> 280, y |-> 100, hp |-> hp[2]]]
  /\ winner = NOBODY
  /\ clock = 5000
  /\ calls = 0
  /\ width = 400
  /\ height = 200
  /\ messages = <<>>
  /\ statsDelta = zeroStats
  /\ log = <<>>
  /\ prevIn = [hist |-> hist, bases |-> bases, winner |-> NOBODY, clock |-> clock]
  /\ lastHit = [i \in 1..4 |-> <<NEVER, NEVER>>]
  /\ battleStarted = TRUE
  /\ pendingWaves = <<>>

\* One frame, with any outcome of the path queries
StepNav ==
  /\ calls < MaxNavSteps
  /\ \E nav \in NavQueries, rnd \in RandomDraws :
       LET r == stepBattleFrame(hist, bases, winner, clock, nav, rnd, width, height)
       IN /\ hist' = r.h
          /\ bases' = r.bases
          /\ winner' = r.winner
          /\ messages' = r.messages
          /\ statsDelta' = r.stats
          /\ log' = r.log
          /\ prevIn' = [hist |-> hist, bases |-> bases,
                        winner |-> winner, clock |-> clock]
          /\ lastHit' = [i \in DOMAIN lastHit |->
                           IF \E k \in 1..Len(r.log) : r.log[k].by = i /\ r.log[k].dealt
                           THEN <<lastHit[i][2], clock>>
                           ELSE lastHit[i]]
          /\ \E dt \in ClockSteps : clock' = clock + dt
  /\ calls' = calls + 1
  /\ UNCHANGED <<width, height, battleStarted, pendingWaves>>

NextNav == StepNav

SpecNav == InitNav /\ [][NextNav]_vars

(* ------------------------------------------- the frame loop of App.js *)
\* updateSimulation mutates the unit objects in place (soldiers.map returns the
\* objects it was given), so the App has one generation of objects, hist[1],
\* and every target reference is <<1, i>>.

\* `${soldier.team} wins! Celebrating...`
WinsMessage(team) ==
  [kind |-> IF team = "army1" THEN "army1 wins" ELSE "army2 wins",
   unit |-> 0, by |-> 0]

\* One turn of soldiers.map in updateSimulation.  st carries, besides the heap,
\* messages, stats and log, the frame's battleEnded and winningTeam; win is
\* the winner state the frame's closure sees.
AppSoldier(st, idx, now, win, w, ht) ==
  LET soldier == st.h[1][idx]
      enemies == Enemies(st.h, 1, soldier)
      old == soldier.target
      reacquire == NeedsNewTarget(st.h, old)
      tref == IF reacquire THEN findClosestEnemy(st.h, soldier, enemies) ELSE old
      noNav == NavUnavailable
  IN IF ~soldier.alive \/ soldier.state = "celebrating" THEN st
     ELSE IF enemies = <<>> /\ win = NOBODY
     THEN [st EXCEPT !.battleEnded = TRUE,
                     !.winningTeam = soldier.team,
                     !.messages = Append(@, WinsMessage(soldier.team))]
     ELSE IF soldier.state = "retreating" THEN Retreat(st, 1, idx, w)
     ELSE IF tref # NULL THEN Engage(st, 1, idx, tref, reacquire, now, noNav, w, ht)
     ELSE st

RECURSIVE AppPass(_, _, _, _, _, _)
AppPass(st, idx, now, win, w, ht) ==
  IF idx > Len(st.h[1]) THEN st
  ELSE AppPass(AppSoldier(st, idx, now, win, w, ht), idx + 1, now, win, w, ht)

\* if (battleEnded) every living unit of the winning team starts celebrating
Celebrate(us, battleEnded, winningTeam) ==
  [i \in 1..Len(us) |->
     IF battleEnded /\ us[i].team = winningTeam /\ us[i].alive
     THEN [us[i] EXCEPT !.state = "celebrating"]
     ELSE us[i]]

\* (10 * Math.pow(deaths, 4)) / (soldiers.length / 10)
MoraleDecrease(deaths, rosterSize) ==
  RoundDiv(100 * deaths * deaths * deaths * deaths, rosterSize)

\* the morale pass for one team with deaths > 0 in this frame
MoraleOfTeam(us, team, deaths) ==
  [i \in 1..Len(us) |->
     IF us[i].team = team /\ us[i].alive /\ us[i].state # "retreating"
     THEN LET m == us[i].morale - MoraleDecrease(deaths, Len(us))
          IN [us[i] EXCEPT !.morale = m,
                           !.state = IF m <= 0 THEN "retreating" ELSE @]
     ELSE us[i]]

\* the units the morale pass of one team turns to retreating, in roster order
NewRetreats(us, team, deaths) ==
  LET after == MoraleOfTeam(us, team, deaths)
      Turned(i) == after[i].state = "retreating" /\ us[i].state # "retreating"
  IN SelectSeq([i \in 1..Len(us) |-> i], Turned)

\* `${s.id} is retreating due to low morale!` for each of the units turned
RetreatMessages(us, turned) ==
  [k \in 1..Len(turned) |-> [kind |-> "retreating", unit |-> us[turned[k]].id, by |-> 0]]

RECURSIVE MoraleFrom(_, _, _, _)
\* Object.keys(defeatedTeams).forEach(...) from the k-th team on: acc holds
\* the roster and the retreat messages so far
MoraleFrom(acc, order, deaths, k) ==
  IF k > Len(order) THEN acc
  ELSE LET t == order[k]
       IN MoraleFrom(
            [us |-> MoraleOfTeam(acc.us, t, deaths[t]),
             messages |-> acc.messages \o
                RetreatMessages(acc.us, NewRetreats(acc.us, t, deaths[t]))],
            order, deaths, k + 1)

\* the morale pass: the teams in the order of their first death in the frame
\* (the key order of defeatedTeams); deaths[t] is defeatedTeams[t]
MoralePass(us, order, deaths) ==
  MoraleFrom([us |-> us, messages |-> <<>>], order, deaths, 1)

\* the teams that lost a unit to a melee hit, in the order of their first
\* death (the key order of defeatedTeams), read off the frame's messages
DefeatedOrder(us, msgs) ==
  LET Team(k) == us[msgs[k].unit].team
      First(k) == /\ msgs[k].kind = "defeated"
                  /\ \A j \in 1..(k - 1) :
                       msgs[j].kind = "defeated" => Team(j) # Team(k)
      firsts == SelectSeq([k \in 1..Len(msgs) |-> k], First)
  IN [k \in 1..Len(firsts) |-> Team(firsts[k])]

\* what updateSimulation does after soldiers.map: the celebration, the morale
\* pass and resolveOverlaps; st1 is the state soldiers.map leaves
AfterMap(st1, win, rnd, w, ht) ==
  LET cheering == Celebrate(st1.h[1], st1.battleEnded, st1.winningTeam)
      deaths == [t \in {"army1", "army2"} |-> st1.stats[Other(t)].killsDelta]
      morale == MoralePass(cheering, DefeatedOrder(cheering, st1.messages), deaths)
  IN [h |-> << resolveOverlaps(morale.us, w, ht, rnd) >>,
      winner |-> IF st1.battleEnded THEN st1.winningTeam ELSE win,
      messages |-> st1.messages \o morale.messages,
      stats |-> st1.stats,
      log |-> st1.log]

\* updateSimulation: one animation frame of the App
updateSimulation(h, win, now, rnd, w, ht) ==
  AfterMap(AppPass([h |-> h, messages |-> <<>>, stats |-> zeroStats,
                    log |-> <<>>, battleEnded |-> FALSE, winningTeam |-> NOBODY],
                   1, now, win, w, ht),
           win, rnd, w, ht)

\* the App's rosters: unit 2 with full or little morale; unit 4 idle where
\* the roster has it, or retreating, out of morale, further up the field;
\* or the last unit of army1, one hit from death and in range of a weak
\* unit 3, against three units of army2, unit 4 with little morale
AppRosters ==
  { [r EXCEPT ![2].morale = m] :
      r \in {q \in Rosters : q[4].state = "idle"}, m \in {25, 100} }
  \cup
  { [r EXCEPT ![2].morale = m, ![4].x = 100, ![4].y = 30, ![4].morale = 0,
              ![4].state = "retreating"] :
      r \in {q \in Rosters : q[4].state = "idle"}, m \in {25, 100} }
  \cup
  { [r EXCEPT ![1].health = 10, ![2].morale = m, ![4].team = "army2",
              ![4].morale = 25] :
      r \in {q \in Rosters : /\ q[1].x = 158 /\ q[2].health = 40
                              /\ q[3].x = 117 /\ q[4].state = "idle"},
      m \in {25, 100} }

InitApp ==
  /\ \E r \in AppRosters : hist = << r >>
  /\ bases = [army1 |-> [x |-> 120, y |-> 100, hp |-> 100],
              army2 |-> [x |-> 280, y |-> 100, hp |-> 100]]
  /\ winner = NOBODY
  /\ clock \in StartClocks
  /\ calls = 0
  /\ width = 400
  /\ height = 200
  /\ messages = <<>>
  /\ statsDelta = zeroStats
  /\ log = <<>>
  /\ prevIn = [hist |-> hist, bases |-> bases, winner |-> NOBODY, clock |-> clock]
  /\ lastHit = [i \in 1..4 |-> <<NEVER, NEVER>>]
  /\ battleStarted = TRUE
  /\ pendingWaves = <<>>

\* One animation frame
AppFrame ==
  /\ calls < MaxSteps
  /\ \E rnd \in RandomDraws :
       LET r == updateSimulation(hist, winner, clock, rnd, width, height)
       IN /\ hist' = r.h
          /\ winner' = r.winner
          /\ messages' = r.messages
          /\ statsDelta' = r.stats
          /\ log' = r.log
          /\ prevIn' = [hist |-> hist, bases |-> bases,
                        winner |-> winner, clock |-> clock]
          /\ lastHit' = [i \in DOMAIN lastHit |->
                           IF \E k \in 1..Len(r.log) : r.log[k].by = i /\ r.log[k].dealt
                           THEN <<lastHit[i][2], clock>>
                           ELSE lastHit[i]]
          /\ \E dt \in ClockSteps : clock' = clock + dt
  /\ calls' = calls + 1
  /\ UNCHANGED <<bases, width, height, battleStarted, pendingWaves>>

NextApp == AppFrame

SpecApp == InitApp /\ [][NextApp]_vars

----------------------------------------------------------------------------
\* The App with the wave spawner (startSimulation, resetSimulation and the
\* spawn-wave timeouts).  A unit is its id, team, alive flag, state and
\* radius; the id `${team}-${Date.now()}-${spawned + i}` is the triple of its
\* parts, which the string determines and is determined by (a team name has
\* no '-', the other two parts are decimal numbers).

\* handler calls and timeouts per run
MaxEvents == 4

\* Math.min(5, 50 - spawned)
waveSize == 5

\* if (spawned >= 50) return
maxSpawned == 50

\* setTimeout(spawnOneWave, 30000)
waveDelayMs == 30000

\* the makeSpawn calls of startSimulation, in the order they are made
SpawnPoints ==
  << [team |-> "army1", point |-> 1], [team |-> "army1", point |-> 2],
     [team |-> "army2", point |-> 1], [team |-> "army2", point |-> 2] >>

\* spawnOneWave of the closure c = [team, point, spawned] when Date.now()
\* reads now: the units it appends to the roster and the timeout it schedules
spawnOneWave(c, now) ==
  IF c.spawned >= maxSpawned THEN [units |-> <<>>, timers |-> <<>>]
  ELSE LET toSpawn == Min(waveSize, maxSpawned - c.spawned)
       IN [units |-> [i \in 1..toSpawn |->
                        [id |-> <<c.team, now, c.spawned + (i - 1)>>,
                         team |-> c.team, alive |-> TRUE, state |-> "idle",
                         radius |-> 16]],
           timers |-> IF c.spawned + toSpawn < maxSpawned
                      THEN << [team |-> c.team, point |-> c.point,
                               spawned |-> c.spawned + toSpawn,
                               due |-> now + waveDelayMs] >>
                      ELSE <<>>]

\* makeSpawn: a closure with spawned = 0 whose first wave runs at once
makeSpawn(p, now) ==
  spawnOneWave([team |-> p.team, point |-> p.point, spawned |-> 0], now)

\* what Date.now() reads in the four makeSpawn calls of one startSimulation:
\* the same millisecond, or the next one from some call on
StartReadings(now) ==
  {t \in [1..4 -> {now, now + 1}] : \A k \in 1..3 : t[k] <= t[k + 1]}

\* a sequence without its k-th element
Without(q, k) == [n \in 1..(Len(q) - 1) |-> IF n < k THEN q[n] ELSE q[n + 1]]

InitWaves ==
  /\ hist = << <<>> >>
  /\ bases = [army1 |-> [x |-> 120, y |-> 100, hp |-> 2000],
              army2 |-> [x |-> 280, y |-> 100, hp |-> 2000]]
  /\ winner = NOBODY
  /\ clock = 5000
  /\ calls = 0
  /\ width = 400
  /\ height = 200
  /\ messages = <<>>
  /\ statsDelta = zeroStats
  /\ log = <<>>
  /\ prevIn = [hist |-> hist, bases |-> bases, winner |-> NOBODY, clock |-> clock]
  /\ lastHit = [i \in 1..4 |-> <<NEVER, NEVER>>]
  /\ battleStarted = FALSE
  /\ pendingWaves = <<>>

\* startSimulation: the handler tests nothing (its button is disabled while
\* battleStarted or while the roster is empty); it empties the roster, makes
\* the four spawn points, each of which spawns its first wave and schedules
\* its next, and sets battleStarted.  Timeouts scheduled earlier stay.
startSimulation ==
  /\ calls < MaxEvents
  /\ \E t \in StartReadings(clock) :
       LET w1 == makeSpawn(SpawnPoints[1], t[1])
           w2 == makeSpawn(SpawnPoints[2], t[2])
           w3 == makeSpawn(SpawnPoints[3], t[3])
           w4 == makeSpawn(SpawnPoints[4], t[4])
       IN /\ hist' = << w1.units \o w2.units \o w3.units \o w4.units >>
          /\ pendingWaves' = pendingWaves \o w1.timers \o w2.timers
                                          \o w3.timers \o w4.timers
          /\ clock' = t[4]
  /\ winner' = NOBODY
  /\ messages' = <<>>
  /\ battleStarted' = TRUE
  /\ calls' = calls + 1
  /\ UNCHANGED <<bases, width, height, statsDelta, log, prevIn, lastHit>>

\* resetSimulation: clears the flag, the roster, the winner and the messages;
\* it clears no timeout
resetSimulation ==
  /\ calls < MaxEvents
  /\ battleStarted' = FALSE
  /\ hist' = << <<>> >>
  /\ winner' = NOBODY
  /\ messages' = <<>>
  /\ calls' = calls + 1
  /\ UNCHANGED <<bases, clock, width, height, statsDelta, log, prevIn, lastHit,
                 pendingWaves>>

\* A spawn-wave timeout fires, the earliest due first, at its due time or a
\* millisecond late: setSoldiers(prev => [...prev, ...newUnits])
SpawnWaveTimeout ==
  /\ calls < MaxEvents
  /\ \E k \in 1..Len(pendingWaves) :
       /\ \A n \in 1..Len(pendingWaves) : pendingWaves[k].due <= pendingWaves[n].due
       /\ \E now \in {Max(clock, pendingWaves[k].due),
                       Max(clock, pendingWaves[k].due) + 1} :
            LET w == spawnOneWave(pendingWaves[k], now)
            IN /\ hist' = << soldiers \o w.units >>
               /\ pendingWaves' = Without(pendingWaves, k) \o w.timers
               /\ clock' = now
  /\ calls' = calls + 1
  /\ UNCHANGED <<bases, winner, width, height, messages, statsDelta, log, prevIn,
                 lastHit, battleStarted>>

NextWaves == startSimulation \/ resetSimulation \/ SpawnWaveTimeout

SpecWaves == InitWaves /\ [][NextWaves]_vars

(* =============================================================== claims *)
\* the roster the last frame received
prevSoldiers == prevIn.hist[Len(prevIn.hist)]

\* the last frame ran the roster pass (it was entered with no winner)
Stepped == calls > 0 /\ prevIn.winner = NOBODY

\* the last frame was entered with the winner already decided
PassedThrough == calls > 0 /\ prevIn.winner # NOBODY

\* C1: a frame entered with a winner returns the soldiers, strongholds and
\* winner it was given, no messages and zero deltas for both teams; so from
\* the frame that decides the winner on, nothing changes any more.
C1_WinnerFrameIsNoOp ==
  PassedThrough =>
    /\ soldiers = prevSoldiers
    /\ bases = prevIn.bases
    /\ winner = prevIn.winner
    /\ messages = <<>>
    /\ statsDelta = zeroStats

\* two frames have passed the decided state through
C1_Witness == PassedThrough /\ calls = Len(hist) + 1

\* C2: a frame entered without a winner returns a winner exactly when some
\* stronghold has hp <= 0 after the pass, and the winner is then the team
\* opposing a destroyed stronghold.
C2_WinnerIffStrongholdDestroyed ==
  Stepped =>
    /\ winner # NOBODY <=> (bases.army1.hp <= 0 \/ bases.army2.hp <= 0)
    /\ winner = "army2" => bases.army1.hp <= 0
    /\ winner = "army1" => bases.army2.hp <= 0

\* the last frame destroyed the army1 stronghold and declared army2
C2_Witness ==
  Stepped /\ winner = "army2" /\ prevIn.bases.army1.hp > 0 /\ bases.army2.hp > 0

\* C3: from one returned state to the next no stronghold's hp increases, and
\* it is never below 0.
C3_StrongholdHpMonotone ==
  calls > 0 =>
    \A t \in {"army1", "army2"} :
      bases[t].hp <= prevIn.bases[t].hp /\ bases[t].hp >= 0

\* a siege hit larger than the remaining hp left the stronghold at 0
C3_Witness ==
  /\ Stepped
  /\ bases.army1.hp = 0
  /\ \E k \in 1..Len(log) :
       log[k].sieged /\ prevSoldiers[log[k].by].damage > prevIn.bases.army1.hp

\* C4: after a melee attack that dealt damage at clock value t, the unit
\* deals no melee damage at any later clock value below t + attackCooldownMs.
\* lastHit[i] holds the clock values of the last two damaging attacks of unit i.
C4_CooldownLaw ==
  \A i \in DOMAIN lastHit :
    lastHit[i][1] # NEVER => lastHit[i][2] >= lastHit[i][1] + attackCooldownMs

\* C5: when a melee hit brings the target's health to <= 0, the roster unit
\* with the target's id is dead in the returned state (alive = false, state
\* 'dead'), the defeat message is emitted and the deltas are updated.
C5_KillMarksRosterUnitDead ==
  \A k \in 1..Len(log) :
    log[k].lethal =>
      LET victim == soldiers[log[k].ref[2]]
          killer == soldiers[log[k].by]
      IN /\ ~victim.alive
         /\ victim.state = "dead"
         /\ \E m \in 1..Len(messages) :
              messages[m] = [kind |-> "defeated", unit |-> victim.id, by |-> killer.id]
         /\ statsDelta[killer.team].killsDelta >= 1
         /\ statsDelta[victim.team].aliveDelta <= -1

\* C6: a unit never directs a distance check or melee damage at a target
\* whose roster entry (the roster unit carrying the target's id) is not alive
\* at the start of the unit's turn: it re-acquires instead.
C6_TargetResolvedAgainstRoster ==
  \A k \in 1..Len(log) : log[k].kind = "engage" => log[k].rosterAlive

\* the living enemies of roster unit i, as findClosestEnemy receives them
LivingEnemies(i) == Enemies(hist, Len(hist), soldiers[i])

\* squared distance from roster unit i to the object behind reference r
DistSqTo(i, r) ==
  DistSq(Deref(hist, r).x - soldiers[i].x, Deref(hist, r).y - soldiers[i].y)

\* C7: for every living roster unit, findClosestEnemy over its living enemies
\* returns null exactly when there is none, and otherwise a living enemy at
\* minimum distance that precedes in roster order every other enemy at that
\* distance.
C7_ClosestEnemyFirstOnTies ==
  \A i \in 1..Len(soldiers) :
    soldiers[i].alive =>
      LET es == LivingEnemies(i)
          r == findClosestEnemy(hist, soldiers[i], es)
      IN /\ r = NULL <=> es = <<>>
         /\ r # NULL =>
              /\ Deref(hist, r).alive
              /\ Deref(hist, r).team # soldiers[i].team
              /\ \A k \in 1..Len(es) :
                   /\ DistSqTo(i, r) <= DistSqTo(i, es[k])
                   /\ DistSqTo(i, r) = DistSqTo(i, es[k]) => r[2] <= es[k][2]

\* a unit acquired its target in the last frame among two living enemies at
\* the same, minimum, distance, and holds the first of them
C7_Witness ==
  \E k \in 1..Len(log) :
    LET i == log[k].by
        es == LivingEnemies(i)
    IN /\ log[k].kind = "engage" /\ log[k].acquired
       /\ soldiers[i].alive
       /\ soldiers[i].target = findClosestEnemy(hist, soldiers[i], es)
       /\ \E a, b \in 1..Len(es) :
            /\ a < b
            /\ es[a] = soldiers[i].target
            /\ DistSqTo(i, es[a]) = DistSqTo(i, es[b])

C9_DeadIffNotAliveAndNoHealth ==
  \A g \in 1..Len(hist) : \A i \in 1..Len(hist[g]) :
    hist[g][i].state = "dead" <=> (~hist[g][i].alive /\ hist[g][i].health <= 0)

\* a melee hit of the last frame killed a roster unit
C9_Witness ==
  \E k \in 1..Len(log) :
    /\ log[k].lethal
    /\ log[k].ref[1] = Len(hist)
    /\ soldiers[log[k].ref[2]].state = "dead"

\* C10: in every state a frame produces, a unit whose state is 'retreating'
\* has no target, also in the frame in which its morale dropped to <= 0.
C10_RetreatingHasNoTarget ==
  \A i \in 1..Len(soldiers) :
    soldiers[i].state = "retreating" => soldiers[i].target = NULL

\* the unit lies on the battlefield, at least its radius away from every edge
InBounds(u) ==
  /\ u.radius <= u.x /\ u.x <= width - u.radius
  /\ u.radius <= u.y /\ u.y <= height - u.radius

\* C11: after every step every unit of the returned roster, whatever its state
\* and whether it is alive or not, lies within
\* [radius, width - radius] x [radius, height - radius].
C11_AllUnitsInBounds ==
  calls > 0 => \A i \in 1..Len(soldiers) : InBounds(soldiers[i])

\* C12: after the overlap resolution at the end of a step every two living
\* units are at least radius_a + radius_b + separationPadding apart, up to a
\* small epsilon (two grid units here, which covers the rounding of the grid).
C12_LivingUnitsSeparated ==
  Stepped =>
    \A i, j \in 1..Len(soldiers) :
      (i < j /\ soldiers[i].alive /\ soldiers[j].alive) =>
        LET minDist == soldiers[i].radius + soldiers[j].radius + separationPadding
        IN DistSq(soldiers[j].x - soldiers[i].x, soldiers[j].y - soldiers[i].y)
             >= (minDist - 2) * (minDist - 2)

\* the unit of log entry e stands within baseAttackRange of the enemy
\* stronghold after its turn
InSiegeRange(e) ==
  LET foe == bases[Other(prevSoldiers[e.by].team)]
  IN DistSq(foe.x - e.at.x, foe.y - e.at.y) <= baseAttackRange * baseAttackRange

\* the siege cooldown of the unit of log entry e had elapsed when the frame
\* began: it never attacked a stronghold, or more than baseAttackCooldownMs ago
SiegeCooledDown(e) ==
  LET last == prevSoldiers[e.by].lastBaseAttack
  IN last = NEVER \/ prevIn.clock - last > baseAttackCooldownMs

RECURSIVE SiegeReplay(_)
\* the strongholds the claim prescribes after the first k turns of the frame
SiegeReplay(k) ==
  IF k = 0 THEN prevIn.bases
  ELSE LET e == log[k]
           u == prevSoldiers[e.by]
       IN IF e.kind # "retreat" /\ InSiegeRange(e) /\ SiegeCooledDown(e)
          THEN [SiegeReplay(k - 1) EXCEPT
                  ![Other(u.team)].hp = Max(0, @ - u.damage)]
          ELSE SiegeReplay(k - 1)

\* C13: every living unit that is neither retreating nor celebrating takes a
\* siege turn, with or without a unit target; in range of the enemy stronghold
\* and with the siege cooldown elapsed it takes its damage off that
\* stronghold's hp (not below 0) and stamps lastBaseAttack, otherwise it leaves
\* hp and timer alone; no unit reduces its own stronghold's hp.
C13_SiegeLaw ==
  Stepped =>
    /\ \A i \in 1..Len(soldiers) :
         (/\ soldiers[i].alive
          /\ prevSoldiers[i].state \notin {"retreating", "celebrating"})
         => \E k \in 1..Len(log) : log[k].by = i /\ log[k].kind # "retreat"
    /\ \A k \in 1..Len(log) :
         log[k].kind # "retreat" =>
           soldiers[log[k].by].lastBaseAttack =
             IF InSiegeRange(log[k]) /\ SiegeCooledDown(log[k])
             THEN prevIn.clock
             ELSE prevSoldiers[log[k].by].lastBaseAttack
    /\ bases = SiegeReplay(Len(log))

\* the melee cooldown of the unit of log entry e had elapsed when the frame
\* began: it never attacked a unit, or more than attackCooldownMs ago
MeleeCooledDown(e) ==
  LET last == prevSoldiers[e.by].lastAttack
  IN last = NEVER \/ prevIn.clock - last > attackCooldownMs

\* C14: melee and siege are independent channels.  A turn stamps lastAttack
\* exactly when it deals melee damage and lastBaseAttack exactly when it fires
\* the siege; a unit in melee range whose melee cooldown has elapsed strikes
\* whatever its siege timer says, and a unit in siege range whose siege
\* cooldown has elapsed fires whether or not it struck in the same turn.
C14_IndependentChannels ==
  Stepped =>
    \A k \in 1..Len(log) :
      log[k].kind # "retreat" =>
        LET old == prevSoldiers[log[k].by]
            new == soldiers[log[k].by]
        IN /\ new.lastAttack = IF log[k].dealt THEN prevIn.clock ELSE old.lastAttack
           /\ new.lastBaseAttack =
                IF log[k].sieged THEN prevIn.clock ELSE old.lastBaseAttack
           /\ (log[k].mode = "attack" /\ MeleeCooledDown(log[k])) => log[k].dealt
           /\ (InSiegeRange(log[k]) /\ SiegeCooledDown(log[k])) => log[k].sieged

\* a unit fired both channels in the last frame, and a unit struck in the last
\* frame without firing the siege
C14_Witness ==
  /\ Stepped
  /\ \E k \in 1..Len(log) : log[k].dealt /\ log[k].sieged
  /\ \E k \in 1..Len(log) : log[k].dealt /\ ~log[k].sieged

\* the team of the roster unit with the given id
TeamOfId(id) ==
  soldiers[CHOOSE i \in 1..Len(soldiers) : soldiers[i].id = id].team

\* the number of units of the team defeated in the last frame
DeathsOf(team) ==
  Cardinality({m \in 1..Len(messages) :
                 messages[m].kind = "defeated" /\ TeamOfId(messages[m].unit) = team})

\* C15: at the end of a frame in which a team had d >= 1 deaths, every living
\* unit of that team that was not retreating has lost exactly
\* 10 * d^4 / (rosterSize / 10) morale, and with morale <= 0 it is retreating and
\* a retreat message was emitted for it; every other unit's morale is as before.
C15_MoraleLaw ==
  calls > 0 =>
    \A i \in 1..Len(soldiers) :
      LET old == prevSoldiers[i]
          new == soldiers[i]
          d == DeathsOf(new.team)
          hit == d >= 1 /\ new.alive /\ old.state # "retreating"
      IN /\ new.morale = IF hit
                         THEN old.morale - MoraleDecrease(d, Len(soldiers))
                         ELSE old.morale
         /\ (hit /\ new.morale <= 0) =>
              /\ new.state = "retreating"
              /\ \E m \in 1..Len(messages) :
                   messages[m] = [kind |-> "retreating", unit |-> new.id, by |-> 0]

\* C16: retreat is one-way: a unit that was retreating when a frame began and
\* is alive when it ends is still retreating, never idle, moving, attacking
\* or celebrating.
C16_RetreatIsOneWay ==
  calls > 0 =>
    \A i \in 1..Len(soldiers) :
      (prevSoldiers[i].state = "retreating" /\ soldiers[i].alive)
        => soldiers[i].state = "retreating"

\* a defeat message of the last frame names the unit
DefeatedIn(id) ==
  \E m \in 1..Len(messages) :
    messages[m].kind = "defeated" /\ messages[m].unit = id

\* the 'has left the battlefield' messages of the last frame for the unit
LeftMessages(id) ==
  {m \in 1..Len(messages) : messages[m] = [kind |-> "left", unit |-> id, by |-> 0]}

\* the deaths of the team the last frame announced: defeats and departures
Announced(team) ==
  {m \in 1..Len(messages) :
     /\ messages[m].kind \in {"defeated", "left"}
     /\ TeamOfId(messages[m].unit) = team}

C18_InputNotModified ==
  Stepped =>
    LET g == Len(prevIn.hist)
    IN \A i \in 1..Len(prevSoldiers) :
         /\ hist[g][i].health = prevSoldiers[i].health
         /\ hist[g][i].alive = prevSoldiers[i].alive
         /\ hist[g][i].state = prevSoldiers[i].state
         /\ hist[g][i].x = prevSoldiers[i].x
         /\ hist[g][i].y = prevSoldiers[i].y

\* C19: within one step a unit's distance check reads its target's pre-step
\* position: the position a turn reads for its target is the position that
\* unit had in the roster the step was given, whether the target comes before
\* or after the unit in the roster.
C19_ReadsPreStepPositions ==
  Stepped =>
    \A k \in 1..Len(log) :
      log[k].kind = "engage" =>
        log[k].seen = [x |-> prevSoldiers[log[k].ref[2]].x,
                       y |-> prevSoldiers[log[k].ref[2]].y]

\* C20: the stepper neither creates nor deletes roster entries: the returned
\* roster has the length of the roster it was given and the same ids in the
\* same order; a unit that died is still there, with alive = false.
C20_RosterStable ==
  calls > 0 =>
    /\ Len(soldiers) = Len(prevSoldiers)
    /\ \A i \in 1..Len(prevSoldiers) :
         i <= Len(soldiers) /\ soldiers[i].id = prevSoldiers[i].id

\* a unit died in the last frame, by a melee hit or by leaving the
\* battlefield, and is still in the roster at its place
C20_Witness ==
  /\ Stepped
  /\ \E i \in 1..Len(prevSoldiers) :
       /\ prevSoldiers[i].alive
       /\ i <= Len(soldiers)
       /\ soldiers[i].id = prevSoldiers[i].id
       /\ ~soldiers[i].alive

\* C21: a unit that is not alive in the roster a step is given is returned
\* with every field as it was: it is not revived, and neither locomotion nor
\* retreat nor overlap resolution moves it.
C21_DeadUnitsUnchanged ==
  calls > 0 =>
    \A i \in 1..Len(soldiers) :
      ~prevSoldiers[i].alive => soldiers[i] = prevSoldiers[i]

\* the last frame ran the pass over a roster with a dead unit that lies
\* outside the battlefield, and returned that unit where it was
C21_Witness ==
  /\ Stepped
  /\ \E i \in 1..Len(soldiers) :
       /\ ~prevSoldiers[i].alive
       /\ ~InBounds(prevSoldiers[i])
       /\ soldiers[i] = prevSoldiers[i]

\* r is what the last call returned: units, bases, winner, messages, counters
Returned(r) ==
  /\ r.h = hist
  /\ r.bases = bases
  /\ r.winner = winner
  /\ r.messages = messages
  /\ r.stats = statsDelta

\* The path queries of a frame yield nothing to steer by: the query object is
\* missing, a query throws, or neither the first query nor the fallback query
\* returns a successful path of at least two points
NavFailed(nav) ==
  \/ ~nav.available
  \/ nav.throws
  \/ /\ ~(nav.first.success /\ nav.first.points >= 2)
     /\ ~(nav.door.success /\ nav.door.points >= 2)

\* the straight line from a position to a point, scaled to a speed
StraightLine(from, to, speed) ==
  LET dx == to.x - from.x
      dy == to.y - from.y
      dist == IF Hypot(dx, dy) = 0 THEN 1 ELSE Hypot(dx, dy)
  IN [x |-> RoundDiv(dx * speed, dist), y |-> RoundDiv(dy * speed, dist)]

\* C22: when the path queries fail (no query object, a thrown query, no
\* successful path, a path of fewer than two points), a moving unit steers
\* along the straight line to its target, and the frame returns what it
\* returns without any path-finding at all.
C22_NavFailureIsStraightLine ==
  Stepped =>
    \A k \in 1..Len(log) :
      (log[k].mode = "move" /\ NavFailed(log[k].nav)) =>
        /\ log[k].steer = StraightLine(prevSoldiers[log[k].by], log[k].seen,
                                       prevSoldiers[log[k].by].speed)
        /\ \E rnd \in RandomDraws :
             Returned(stepBattleFrame(prevIn.hist, prevIn.bases, prevIn.winner,
                                      prevIn.clock, NavUnavailable, rnd, width, height))

C22_Witness ==
  /\ Stepped
  /\ \E k \in 1..Len(log) :
       /\ log[k].mode = "move"
       /\ log[k].nav.available
       /\ ~log[k].nav.throws
       /\ ~log[k].nav.first.success
       /\ log[k].nav.first.points >= 2
       /\ log[k].steer # [x |-> 0, y |-> 0]
       /\ soldiers[log[k].by].x # prevSoldiers[log[k].by].x

\* u is farther than baseAttackRange from the enemy stronghold
OutOfSiegeRange(u) ==
  LET foe == bases[Other(u.team)]
  IN DistSq(foe.x - u.x, foe.y - u.y) > baseAttackRange * baseAttackRange

\* r is the result of a frame that changed nothing and decided nothing, and in
\* which every turn was that of a unit without a target: no clock reading, path
\* or random draw enters such a frame
StandsStill(r) ==
  /\ r.h[Len(r.h)] = soldiers
  /\ r.bases = bases
  /\ r.winner = NOBODY
  /\ r.messages = <<>>
  /\ \A k \in 1..Len(r.log) : r.log[k].kind = "idle" /\ ~r.log[k].sieged

\* the claim's starting state, in the case it singles out: no winner, both
\* strongholds with positive hp, a living unit with positive damage that is not
\* retreating, and no living unit on the other team
C23_Start ==
  /\ winner = NOBODY
  /\ bases.army1.hp > 0
  /\ bases.army2.hp > 0
  /\ \E i \in 1..Len(soldiers) :
       /\ soldiers[i].alive
       /\ soldiers[i].state # "retreating"
       /\ soldiers[i].damage > 0
       /\ \A j \in 1..Len(soldiers) :
            soldiers[j].alive => soldiers[j].team = soldiers[i].team

\* C23: from a state with no winner, both strongholds with positive hp and a
\* living, non-retreating unit with positive damage, repeated frames with an
\* advancing clock eventually set a winner, in particular when the other team
\* has no living unit left.  Checked as its safety consequence: no such state
\* is one from which every frame returns the same units and strongholds and
\* no winner, whatever the clock, the path query and the draws (looked for in
\* the runs whose clock never read 0).
C23_WinnerEventually ==
  ~ /\ C23_Start
    /\ clock > 5000
    /\ \A i \in 1..Len(soldiers) :
         soldiers[i].alive => soldiers[i].state = "attacking" /\ OutOfSiegeRange(soldiers[i])
    /\ \A nav \in NavOutcomes, rnd \in RandomDraws :
         StandsStill(stepBattleFrame(hist, bases, winner, clock, nav, rnd, width, height))

\* the death and flee lines the turns of the last frame emit, in the order of
\* the roster pass: a defeat line for a lethal hit, a departure line for a
\* retreating unit that crossed an edge
RECURSIVE TurnLines(_)
TurnLines(k) ==
  IF k = 0 THEN <<>>
  ELSE LET e == log[k]
           gone == e.at.x < 0 \/ e.at.x > width
       IN IF e.lethal
          THEN Append(TurnLines(k - 1),
                      [kind |-> "defeated", unit |-> soldiers[e.ref[2]].id,
                       by |-> soldiers[e.by].id])
          ELSE IF e.kind = "retreat" /\ gone
          THEN Append(TurnLines(k - 1),
                      [kind |-> "left", unit |-> soldiers[e.by].id, by |-> 0])
          ELSE TurnLines(k - 1)

IsTurnLine(m) == m.kind \in {"defeated", "left"}

\* C24: the messages of a frame list its events in the order of the roster
\* pass and cover death, flee and victory: the frame that decides the winner
\* returns a victory line, and a unit that starts retreating in a frame has
\* a flee line in that frame's messages.
C24_MessagesCoverEvents ==
  Stepped =>
    /\ SelectSeq(messages, IsTurnLine) = TurnLines(Len(log))
    /\ winner # NOBODY =>
         \E m \in 1..Len(messages) : messages[m] = WinsMessage(winner)
    /\ \A i \in 1..Len(soldiers) :
         (soldiers[i].state = "retreating" /\ prevSoldiers[i].state # "retreating") =>
           \E m \in 1..Len(messages) :
             messages[m] = [kind |-> "retreating", unit |-> soldiers[i].id, by |-> 0]

HitInFrame(i) ==
  \E k \in 1..Len(log) : log[k].dealt /\ log[k].ref[2] = i

C27_MoveOrAttack ==
  Stepped =>
    \A k \in 1..Len(log) :
      log[k].kind = "engage" =>
        LET old == prevSoldiers[log[k].by]
            new == soldiers[log[k].by]
            target == Deref(hist, log[k].ref)
            attackRange == old.radius + target.radius + engagementBuffer
            far == DistSq(log[k].seen.x - old.x, log[k].seen.y - old.y)
                     > attackRange * attackRange
        IN /\ log[k].mode \in {"move", "attack"}
           /\ log[k].mode = "move" <=> far
           /\ (log[k].mode = "move" /\ new.alive) => new.state = "moving"
           /\ log[k].mode = "attack" =>
                /\ log[k].at = [x |-> old.x, y |-> old.y]
                /\ new.alive => new.state = "attacking"

\* the number of units of the team with alive = true in a roster
AliveCount(us, team) ==
  Cardinality({i \in 1..Len(us) : us[i].alive /\ us[i].team = team})

\* C28: team alive-counts never increase: in every frame aliveDelta <= 0 and
\* killsDelta >= 0 for both teams, and the number of roster units with
\* alive = true on each team does not increase from the state a frame is
\* given to the state it returns.
C28_AliveCountsMonotone ==
  calls > 0 =>
    \A t \in {"army1", "army2"} :
      /\ statsDelta[t].aliveDelta <= 0
      /\ statsDelta[t].killsDelta >= 0
      /\ AliveCount(soldiers, t) <= AliveCount(prevSoldiers, t)

\* a frame in which a unit of army2 was killed by army1
C28_Witness ==
  /\ Stepped
  /\ statsDelta.army2.aliveDelta < 0
  /\ statsDelta.army1.killsDelta > 0
  /\ AliveCount(soldiers, "army2") < AliveCount(prevSoldiers, "army2")

\* the roster the last frame handed to resolveOverlaps: the returned units at
\* the positions their turns left them at
PreOverlap ==
  [i \in 1..Len(soldiers) |->
     IF \E k \in 1..Len(log) : log[k].by = i
     THEN LET k == CHOOSE k \in 1..Len(log) : log[k].by = i
          IN [soldiers[i] EXCEPT !.x = log[k].at.x, !.y = log[k].at.y]
     ELSE [soldiers[i] EXCEPT !.x = prevSoldiers[i].x, !.y = prevSoldiers[i].y]]

\* a roster with the combat state of its units wiped
Blank(us) ==
  [i \in 1..Len(us) |-> [us[i] EXCEPT !.state = "idle", !.target = NULL]]

Positions(us) == [i \in 1..Len(us) |-> <<us[i].x, us[i].y>>]

RECURSIVE AfterPasses(_, _, _)
\* the roster after n full passes over all pairs, and whether the last of
\* them pushed a pair
AfterPasses(us, n, rnd) ==
  IF n = 0 THEN [us |-> us, moved |-> TRUE]
  ELSE OverlapOuter(AfterPasses(us, n - 1, rnd).us, 1, width, height,
                    separationPadding, rnd, FALSE)

\* out is what resolveOverlaps makes of roster us with draws rnd, and it is a
\* purely geometric pass of at most maxIterations passes
GeometricPass(us, out, rnd) ==
  /\ out = resolveOverlaps(us, width, height, rnd)
  /\ \A i \in 1..Len(us) :
       /\ [out[i] EXCEPT !.x = us[i].x, !.y = us[i].y] = us[i]
       /\ ~us[i].alive => out[i] = us[i]
  /\ Positions(resolveOverlaps(Blank(us), width, height, rnd)) = Positions(out)
  /\ \E n \in 1..maxIterations :
       /\ out = AfterPasses(us, n, rnd).us
       /\ n < maxIterations => ~AfterPasses(us, n, rnd).moved
       /\ \A m \in 1..(n - 1) : AfterPasses(us, m, rnd).moved

\* C29: overlap resolution is a pure geometric pass: it changes only x and y
\* of living units, never health, state, target, morale or timers, never a
\* field of a dead unit, and its result does not depend on state or target;
\* it runs at most 8 passes and stops after the first pass that pushed no
\* pair.
C29_OverlapIsGeometric ==
  Stepped => \E rnd \in RandomDraws : GeometricPass(PreOverlap, soldiers, rnd)

\* a frame whose overlap resolution had a dead unit in the roster and needed
\* a second pass
C29_Witness ==
  /\ Stepped
  /\ \E i \in 1..Len(soldiers) : ~soldiers[i].alive
  /\ \E rnd \in RandomDraws :
       /\ soldiers = resolveOverlaps(PreOverlap, width, height, rnd)
       /\ AfterPasses(PreOverlap, 1, rnd).moved
       /\ AfterPasses(PreOverlap, 1, rnd).us # soldiers

\* r is the result of a frame that changed nothing and decided nothing, and in
\* which every turn was a retreat move or that of a unit without a target
Halted(r) ==
  /\ r.h[Len(r.h)] = soldiers
  /\ r.bases = bases
  /\ r.winner = NOBODY
  /\ r.messages = <<>>
  /\ \A k \in 1..Len(r.log) : r.log[k].kind \in {"idle", "retreat"} /\ ~r.log[k].sieged

\* C30: every unit that enters state 'retreating' is eventually removed from
\* the battle: under repeated frames with no winner a living retreating unit
\* with speed > 0 reaches x < 0 or x > battlefieldWidth and becomes
\* alive = false after finitely many frames, unless it is killed first.
\* Checked as its safety consequence: no state with no winner and a living
\* retreating unit of positive speed is one from which every frame returns
\* the same units and strongholds, whatever the clock, the path query and the
\* draws (looked for in the runs whose clock never read 0).
C30_RetreatingUnitLeaves ==
  ~ /\ winner = NOBODY
    /\ clock > 5000
    /\ \E i \in 1..Len(soldiers) :
         /\ soldiers[i].alive
         /\ soldiers[i].state = "retreating"
         /\ soldiers[i].speed > 0
         /\ \A j \in 1..Len(soldiers) :
              soldiers[j].alive => soldiers[j].team = soldiers[i].team
    /\ \A j \in 1..Len(soldiers) :
         (soldiers[j].alive /\ soldiers[j].state # "retreating") =>
           OutOfSiegeRange(soldiers[j])
    /\ \A nav \in NavOutcomes, rnd \in RandomDraws :
         Halted(stepBattleFrame(hist, bases, winner, clock, nav, rnd, width, height))

\* C31: accounting consistency: for each team the initial number of living
\* roster units plus the sum of all aliveDelta returned so far equals the
\* number of roster units of the team with alive = true in the latest
\* returned state (and so is never negative).  The sum and the count agree
\* after every frame of a run exactly when every frame's aliveDelta is the
\* change of the team's count of living units over that frame.
C31_AccountingConsistent ==
  calls > 0 =>
    \A t \in {"army1", "army2"} :
      statsDelta[t].aliveDelta = AliveCount(soldiers, t) - AliveCount(prevSoldiers, t)

\* the unit objects with the given id, of any generation, that were dead when
\* the last frame began: an object is dead only by a lethal hit or by leaving
\* the battlefield, and either was reported when it happened
DeadBefore(id) ==
  {<<g, i>> \in (1..Len(prevIn.hist)) \X (1..Len(soldiers)) :
     prevIn.hist[g][i].id = id /\ ~prevIn.hist[g][i].alive}

\* the death lines of the last frame that name the unit
DeathLines(id) ==
  {m \in 1..Len(messages) :
     messages[m].kind \in {"defeated", "left"} /\ messages[m].unit = id}

\* C32: over a whole battle each unit id is named in at most one death line
\* ('has been defeated by' or 'has left the battlefield'): a frame names a
\* unit at most once, and names no unit whose death an earlier frame
\* reported; no unit is reported killed twice.
C32_NoUnitKilledTwice ==
  calls > 0 =>
    \A i \in 1..Len(soldiers) :
      /\ Cardinality(DeathLines(soldiers[i].id)) <= 1
      /\ DeathLines(soldiers[i].id) # {} => DeadBefore(soldiers[i].id) = {}

\* log entry k is a lethal hit on a roster unit listed after the attacker: the
\* object hit is the unit of the frame's own roster
KillsLaterUnit(k) ==
  /\ log[k].lethal
  /\ log[k].ref[1] = Len(hist)
  /\ log[k].by < log[k].ref[2]

\* C33: within one roster pass a unit killed by a unit earlier in roster order
\* takes no action later in that pass: it has no turn, so it does not move,
\* deals no melee or siege damage and stamps no timer, even when an enemy
\* stood in its attack range and its cooldown was off.
C33_KilledUnitTakesNoTurn ==
  Stepped =>
    \A k \in 1..Len(log) :
      KillsLaterUnit(k) =>
        LET v == log[k].ref[2]
        IN /\ \A n \in 1..Len(log) : log[n].by # v
           /\ soldiers[v].x = prevSoldiers[v].x
           /\ soldiers[v].y = prevSoldiers[v].y
           /\ soldiers[v].lastAttack = prevSoldiers[v].lastAttack
           /\ soldiers[v].lastBaseAttack = prevSoldiers[v].lastBaseAttack
           /\ soldiers[v].target = prevSoldiers[v].target

\* unit 1 killed unit 2, which stood in attack range of unit 1 and in siege
\* range of the army1 stronghold and had never attacked
C33_Witness ==
  /\ Stepped
  /\ \E k \in 1..Len(log) :
       /\ KillsLaterUnit(k)
       /\ LET v == prevSoldiers[log[k].ref[2]]
              a == prevSoldiers[log[k].by]
              foe == prevIn.bases[Other(v.team)]
          IN /\ v.alive
             /\ v.lastAttack = NEVER
             /\ v.lastBaseAttack = NEVER
             /\ v.damage > 0
             /\ DistSq(a.x - v.x, a.y - v.y)
                  <= (a.radius + v.radius + engagementBuffer)
                     * (a.radius + v.radius + engagementBuffer)
             /\ DistSq(foe.x - v.x, foe.y - v.y) <= baseAttackRange * baseAttackRange

\* C34: when both strongholds are at hp <= 0 after the same frame the decided
\* winner is army2 (the army1 stronghold is looked at first); once a
\* stronghold has hp <= 0 a frame returns exactly one team as the winner,
\* never none.
C34_BothFallArmy2Wins ==
  Stepped =>
    /\ (bases.army1.hp <= 0 /\ bases.army2.hp <= 0) => winner = "army2"
    /\ (bases.army1.hp <= 0 \/ bases.army2.hp <= 0) => winner \in {"army1", "army2"}

\* both strongholds stood when the frame began and both are at 0 after it
C34_Witness ==
  /\ Stepped
  /\ prevIn.bases.army1.hp > 0
  /\ prevIn.bases.army2.hp > 0
  /\ bases.army1.hp <= 0
  /\ bases.army2.hp <= 0
  /\ winner = "army2"

RECURSIVE SiegeDealt(_, _)
\* the damage of the units whose siege attack on the team's stronghold fired
\* in the first k turns of the last frame
SiegeDealt(team, k) ==
  IF k = 0 THEN 0
  ELSE SiegeDealt(team, k - 1)
       + (IF log[k].sieged /\ prevSoldiers[log[k].by].team = Other(team)
          THEN prevSoldiers[log[k].by].damage
          ELSE 0)

\* the units whose siege attack on the team's stronghold fired in the last frame
Besiegers(team) ==
  {log[k].by : k \in {n \in 1..Len(log) :
                        log[n].sieged /\ prevSoldiers[log[n].by].team = Other(team)}}

\* C35: siege damage of several units in one frame accumulates without lost
\* updates: a stronghold's hp after the frame is max(0, hp before - the sum
\* of the damage of every unit whose siege attack on it fired in the frame).
C35_SiegeDamageAccumulates ==
  Stepped =>
    \A t \in {"army1", "army2"} :
      bases[t].hp = Max(0, prevIn.bases[t].hp - SiegeDealt(t, Len(log)))

\* two units hit the same stronghold in one frame and it still stands
C35_Witness ==
  /\ Stepped
  /\ \E t \in {"army1", "army2"} :
       /\ Cardinality(Besiegers(t)) >= 2
       /\ bases[t].hp > 0
       /\ bases[t].hp < prevIn.bases[t].hp

\* C36: all units in the roster have pairwise distinct ids at all times,
\* including the units the wave spawner creates when startSimulation starts
\* the two spawn points of each team in the same millisecond.
C36_UniqueIds ==
  \A i, j \in 1..Len(soldiers) :
    i # j => soldiers[i].id # soldiers[j].id

\* C37: after resetSimulation the roster stays empty until startSimulation is
\* called again: while battleStarted is false no unit is in the roster and no
\* spawn wave of an earlier startSimulation is pending, so that none adds
\* units after the reset or runs alongside the waves of the next battle.
C37_ResetStopsWaves ==
  ~battleStarted => (soldiers = <<>> /\ pendingWaves = <<>>)

\* the last App frame set the winner
WinnerSetInFrame == calls > 0 /\ prevIn.winner = NOBODY /\ winner # NOBODY

\* C38: in the App frame loop the battle ends only when all enemies are dead:
\* the winner is set to a team only in a frame after which that team has a
\* living unit and the other team has none, it is set at most once per
\* battle, and in that frame every living unit of the winning team is put
\* into state 'celebrating'; a celebrating unit takes no further action.
C38_AppVictory ==
  calls > 0 =>
    /\ prevIn.winner # NOBODY => winner = prevIn.winner
    /\ WinnerSetInFrame =>
         /\ AliveCount(soldiers, winner) > 0
         /\ AliveCount(soldiers, Other(winner)) = 0
         /\ \A i \in 1..Len(soldiers) :
              (soldiers[i].alive /\ soldiers[i].team = winner) =>
                soldiers[i].state = "celebrating"
    /\ \A i \in 1..Len(soldiers) :
         (prevSoldiers[i].alive /\ prevSoldiers[i].state = "celebrating") =>
           /\ \A k \in 1..Len(log) : log[k].by # i
           /\ [soldiers[i] EXCEPT !.x = prevSoldiers[i].x, !.y = prevSoldiers[i].y]
                = prevSoldiers[i]

====
